---- MODULE Spec2Model ----
(***************************************************************************)
(* The 3D force-directed layout engine of the co-authorship network        *)
(* component (CoAuthorNetwork3D): graph rebuild (drawNetwork3D), the       *)
(* physics step (simulatePhysics), the animation loop (startAnimation),    *)
(* the search box and node picking (clickHandler).                         *)
(*                                                                         *)
(* JavaScript numbers are modelled in fixed point: a position component    *)
(* is an integer count of 1/PosScale units, a velocity or force component  *)
(* an integer count of 1/VelScale, a component of a normalized direction   *)
(* an integer count of 1/UnitScale.  A THREE.Vector3 is a record           *)
(* [x, y, z, nan]; nan marks a vector with a NaN component.                *)
(***************************************************************************)
EXTENDS Integers, Sequences, FiniteSets, TLC

\* ------------------------------------------------------------------------
\* Bounds of the model

\* largest number of physics steps applied to one node array, when rebuilds,
\* searches and clicks interleave with the animation frames
MaxSteps == 20

\* the same, when the papers arrive once and the animation then runs undisturbed
MaxRunSteps == 330

\* largest number of physics steps of two instances run side by side
MaxTwinSteps == 600

\* largest number of physics steps of a layout that is left to settle
MaxSettleSteps == 2000

\* largest number of displayed nodes whose initial placement is compared
MaxPlaced == 12

\* largest number of mousemove and wheel events applied to the camera
MaxCameraMoves == 3

\* largest number of papers given to buildAuthorNetwork
MaxPapers == 2

\* largest number of authors of a paper
MaxAuthors == 2

\* ------------------------------------------------------------------------
\* Fixed-point representation of numbers

PosScale == 1000
VelScale == 10000
UnitScale == 10000

\* largest component magnitude whose three squares still sum below 2^31
SafeComp == 26000

Abs(a) == IF a < 0 THEN -a ELSE a

Sign(a) == IF a < 0 THEN -1 ELSE 1

Max2(a, b) == IF a > b THEN a ELSE b

Sq(a) == a * a

\* a / b rounded toward zero
TruncDiv(a, b) == Sign(a) * (Abs(a) \div b)

\* a * b / c rounded down, for a, b >= 0, without an intermediate above 2^31
MulDivAbs(a, b, c) ==
    (a \div c) * (b \div c) * c + (a \div c) * (b % c) + (a % c) * (b \div c)
        + ((a % c) * (b % c)) \div c

\* a * b / c rounded toward zero
MulDiv(a, b, c) == Sign(a) * Sign(b) * MulDivAbs(Abs(a), Abs(b), c)

RECURSIVE IsqrtIter(_, _, _)
IsqrtIter(n, lo, hi) ==
    IF hi - lo <= 1 THEN lo
    ELSE IF Sq((lo + hi) \div 2) <= n THEN IsqrtIter(n, (lo + hi) \div 2, hi)
    ELSE IsqrtIter(n, lo, (lo + hi) \div 2)

\* Math.sqrt on a non-negative integer, rounded down
Isqrt(n) == IsqrtIter(n, 0, 46341)

\* ------------------------------------------------------------------------
\* THREE.Vector3

Vec(x, y, z) == [x |-> x, y |-> y, z |-> z, nan |-> FALSE]

ZeroVec == Vec(0, 0, 0)

NaNVec == [x |-> 0, y |-> 0, z |-> 0, nan |-> TRUE]

\* Vector3.add
VAdd(a, b) == IF a.nan \/ b.nan THEN NaNVec ELSE Vec(a.x + b.x, a.y + b.y, a.z + b.z)

\* Vector3.sub / subVectors
VSub(a, b) == IF a.nan \/ b.nan THEN NaNVec ELSE Vec(a.x - b.x, a.y - b.y, a.z - b.z)

\* Vector3.multiplyScalar by the rational num/den
VScale(a, num, den) ==
    IF a.nan THEN NaNVec
    ELSE Vec(MulDiv(a.x, num, den), MulDiv(a.y, num, den), MulDiv(a.z, num, den))

\* Vector3.dot
Dot(a, b) == a.x * b.x + a.y * b.y + a.z * b.z

MaxAbs(a) == Max2(Abs(a.x), Max2(Abs(a.y), Abs(a.z)))

\* the factor by which a vector is scaled down before its components are
\* squared: 1 unless a component is above SafeComp
Shrink(a) == Max2(1, (MaxAbs(a) + SafeComp - 1) \div SafeComp)

\* the vector divided by k
Shrunk(a, k) == Vec(TruncDiv(a.x, k), TruncDiv(a.y, k), TruncDiv(a.z, k))

LengthBy(a, k) == k * Isqrt(Dot(Shrunk(a, k), Shrunk(a, k)))

\* Vector3.length (of a vector without NaN), in the vector's own scale
Length(a) == LengthBy(a, Shrink(a))

\* Vector3.distanceTo
Distance(a, b) == Length(VSub(a, b))

\* s / l in UnitScale, 0 / 0 being NaN
UnitOfNoGuard(s, l) ==
    IF l = 0 THEN NaNVec
    ELSE Vec(TruncDiv(s.x * UnitScale, l), TruncDiv(s.y * UnitScale, l),
             TruncDiv(s.z * UnitScale, l))

\* divideScalar(length() || 1): s / l in UnitScale, s / 1 when the length l is 0
UnitOf(s, l) ==
    IF l = 0 THEN Vec(s.x * UnitScale, s.y * UnitScale, s.z * UnitScale)
    ELSE Vec(TruncDiv(s.x * UnitScale, l), TruncDiv(s.y * UnitScale, l),
             TruncDiv(s.z * UnitScale, l))

NormalizeShrunk(s) == UnitOf(s, Isqrt(Dot(s, s)))

\* Vector3.normalize; the result is in UnitScale
Normalize(a) == IF a.nan THEN NaNVec ELSE NormalizeShrunk(Shrunk(a, Shrink(a)))

\* ------------------------------------------------------------------------
\* Strings are sequences of one-character strings

\* String.prototype.toLowerCase, on the characters that occur in the model
LowerChar(ch) ==
    IF ch = "A" THEN "a" ELSE IF ch = "B" THEN "b" ELSE IF ch = "C" THEN "c"
    ELSE IF ch = "D" THEN "d" ELSE IF ch = "E" THEN "e" ELSE IF ch = "N" THEN "n" ELSE ch

ToLower(s) == [i \in 1..Len(s) |-> LowerChar(s[i])]

RECURSIVE TrimLeft(_)
TrimLeft(s) == IF s # <<>> /\ Head(s) = " " THEN TrimLeft(Tail(s)) ELSE s

RECURSIVE TrimRight(_)
TrimRight(s) == IF s # <<>> /\ s[Len(s)] = " " THEN TrimRight(SubSeq(s, 1, Len(s) - 1)) ELSE s

\* String.prototype.trim
Trim(s) == TrimRight(TrimLeft(s))

\* String.prototype.includes
Includes(hay, needle) ==
    \E i \in 0..(Len(hay) - Len(needle)) : SubSeq(hay, i + 1, i + Len(needle)) = needle

\* searchText.trim() is truthy / searchText.trim().length > 0
HasSearch(text) == Len(Trim(text)) > 0

\* String.prototype.split(/\s+/) on a name: the maximal runs without a blank
NameParts(s) ==
    { SubSeq(s, i, j) : <<i, j>> \in
        { p \in (1..Len(s)) \X (1..Len(s)) :
            /\ p[1] <= p[2]
            /\ \A k \in p[1]..p[2] : s[k] # " "
            /\ (p[1] = 1 \/ s[p[1] - 1] = " ")
            /\ (p[2] = Len(s) \/ s[p[2] + 1] = " ") } }

\* matchesName || matchesId, for the lower-cased name, id and search text
MatchesLower(nodeNameLower, nodeIdLower, searchLower) ==
    \/ Includes(nodeNameLower, searchLower)
    \/ \E part \in NameParts(nodeNameLower) : Includes(part, searchLower)
    \/ Includes(nodeIdLower, searchLower)

\* isNodeMatched
isNodeMatched(node, text) ==
    IF ~HasSearch(text) THEN TRUE
    ELSE MatchesLower(ToLower(node.name), ToLower(node.id), Trim(ToLower(text)))

\* ------------------------------------------------------------------------
\* The networks buildAuthorNetwork(applyFilter(papers, filter)) hands to the
\* component: nodes (id, name, count = number of papers) and edges
\* (source, target, weight = number of shared papers)

AuthorA(count) == [id |-> <<"a">>, name |-> <<"A">>, count |-> count]
AuthorB(count) == [id |-> <<"b">>, name |-> <<"B">>, count |-> count]
AuthorC(count) == [id |-> <<"c">>, name |-> <<"C">>, count |-> count]
AuthorD(count) == [id |-> <<"d">>, name |-> <<"D">>, count |-> count]
AuthorE(count) == [id |-> <<"e">>, name |-> <<"E">>, count |-> count]

Edge(s, t, w) == [source |-> s, target |-> t, weight |-> w]

\* no paper passes the filter
NetEmpty == [nodes |-> <<>>, edges |-> <<>>]

\* one single-author paper
NetSolo == [nodes |-> <<AuthorA(1)>>, edges |-> <<>>]

\* three single-author papers
NetTriple == [nodes |-> <<AuthorA(1), AuthorB(1), AuthorC(1)>>, edges |-> <<>>]

\* papers by a and b together
NetPair == [nodes |-> <<AuthorA(20), AuthorB(20)>>,
            edges |-> <<Edge(<<"a">>, <<"b">>, 20)>>]

\* many papers by a and b together
NetHeavy == [nodes |-> <<AuthorA(200), AuthorB(200)>>,
             edges |-> <<Edge(<<"a">>, <<"b">>, 200)>>]

\* papers whose author list is (a, a, b): a is its own co-author
NetLoop == [nodes |-> <<AuthorA(10), AuthorB(5)>>,
            edges |-> <<Edge(<<"a">>, <<"a">>, 10), Edge(<<"a">>, <<"b">>, 10)>>]

\* a paper by a and b and a paper by b and c
NetChain == [nodes |-> <<AuthorA(1), AuthorB(2), AuthorC(1)>>,
             edges |-> <<Edge(<<"a">>, <<"b">>, 1), Edge(<<"b">>, <<"c">>, 1)>>]

\* one paper by a and b together
NetLight == [nodes |-> <<AuthorA(1), AuthorB(1)>>,
             edges |-> <<Edge(<<"a">>, <<"b">>, 1)>>]

\* the same with an edge of weight 5
NetFive == [nodes |-> <<AuthorA(1), AuthorB(1)>>,
            edges |-> <<Edge(<<"a">>, <<"b">>, 5)>>]

\* one paper by a, b, c, d and e together
NetQuintet ==
    [nodes |-> <<AuthorA(1), AuthorB(1), AuthorC(1), AuthorD(1), AuthorE(1)>>,
     edges |-> <<Edge(<<"a">>, <<"b">>, 1), Edge(<<"a">>, <<"c">>, 1), Edge(<<"a">>, <<"d">>, 1),
                 Edge(<<"a">>, <<"e">>, 1), Edge(<<"b">>, <<"c">>, 1), Edge(<<"b">>, <<"d">>, 1),
                 Edge(<<"b">>, <<"e">>, 1), Edge(<<"c">>, <<"d">>, 1), Edge(<<"c">>, <<"e">>, 1),
                 Edge(<<"d">>, <<"e">>, 1)>>]

\* eight single-author papers
NetEight ==
    LET digit == <<"1", "2", "3", "4", "5", "6", "7", "8">>
    IN [nodes |-> [i \in 1..8 |-> [id |-> <<"n", digit[i]>>, name |-> <<"N", digit[i]>>, count |-> 1]],
        edges |-> <<>>]

\* ------------------------------------------------------------------------
\* buildAuthorNetwork: a paper is the sequence of its authors (id, name)

\* `author-${index}`
IndexedId(index) ==
    <<"a", "u", "t", "h", "o", "r", "-">>
        \o <<<<"0", "1", "2", "3", "4", "5", "6", "7", "8", "9">>[index + 1]>>

\* author.id || `author-${index}`
AuthorId(author, index) == IF author.id = <<>> THEN IndexedId(index) ELSE author.id

\* author.name || the two-character prefix for "author", '-' and authorId; the
\* prefix is written here in Latin letters
AuthorName(author, id) ==
    IF author.name = <<>> THEN <<"z", "u", "o", "z", "h", "e", "-">> \o id ELSE author.name

\* the authorId of every position of a paper
IdsOf(paper) == [i \in 1..Len(paper) |-> AuthorId(paper[i], i - 1)]

\* a Map or Set given a key: a new key goes last
AppendNew(seq, x) == IF \E k \in 1..Len(seq) : seq[k] = x THEN seq ELSE Append(seq, x)

RECURSIVE DistinctUpTo(_, _)
DistinctUpTo(seq, n) == IF n = 0 THEN <<>> ELSE AppendNew(DistinctUpTo(seq, n - 1), seq[n])

\* the keys of a Map in insertion order, given every key it was set with
Distinct(seq) == DistinctUpTo(seq, Len(seq))

Count(seq, x) == Cardinality({ k \in 1..Len(seq) : seq[k] = x })

\* the authorIds in the order the outer forEach loops meet them
RECURSIVE FlatIds(_, _)
FlatIds(ps, n) == IF n = 0 THEN <<>> ELSE FlatIds(ps, n - 1) \o IdsOf(ps[n])

\* the first author of the papers whose authorId is id
RECURSIVE FirstWithId(_, _, _, _)
FirstWithId(ps, id, p, i) ==
    IF i > Len(ps[p]) THEN FirstWithId(ps, id, p + 1, 1)
    ELSE IF AuthorId(ps[p][i], i - 1) = id THEN ps[p][i]
    ELSE FirstWithId(ps, id, p, i + 1)

\* the nodes: Array.from(authorMap.entries())
NodesOf(ps, ids, all) ==
    [k \in 1..Len(ids) |->
        [id |-> ids[k], name |-> AuthorName(FirstWithId(ps, ids[k], 1, 1), ids[k]),
         count |-> Count(all, ids[k])]]

\* the inner forEach at position i: the ids at the other positions
OthersOf(ids, i) == [k \in 1..(Len(ids) - 1) |-> ids[IF k < i THEN k ELSE k + 1]]

\* the coauthorIds counted for authorId a by the first n positions of a paper
RECURSIVE CoauthorsInPaper(_, _, _)
CoauthorsInPaper(ids, a, n) ==
    IF n = 0 THEN <<>>
    ELSE CoauthorsInPaper(ids, a, n - 1) \o (IF ids[n] = a THEN OthersOf(ids, n) ELSE <<>>)

\* the coauthorIds counted for authorId a by the first n papers, in order
RECURSIVE Coauthors(_, _, _)
Coauthors(ps, a, n) ==
    IF n = 0 THEN <<>>
    ELSE Coauthors(ps, a, n - 1) \o CoauthorsInPaper(IdsOf(ps[n]), a, Len(ps[n]))

\* coauthorMap.get(a) as (coauthorId, weight) in insertion order, `counted`
\* being every coauthorId counted for a and `keys` the different ones
EdgesFrom(a, counted, keys) == [k \in 1..Len(keys) |-> Edge(a, keys[k], Count(counted, keys[k]))]

\* the entries of coauthorMap for the first n authorIds, in forEach order
RECURSIVE Candidates(_, _, _)
Candidates(ps, ids, n) ==
    IF n = 0 THEN <<>>
    ELSE Candidates(ps, ids, n - 1)
             \o EdgesFrom(ids[n], Coauthors(ps, ids[n], Len(ps)),
                          Distinct(Coauthors(ps, ids[n], Len(ps))))

\* the UTF-16 code unit of a character of the model
CharCode(ch) ==
    IF ch = "-" THEN 45
    ELSE IF ch \in {"0", "1", "2", "3", "4", "5", "6", "7", "8", "9"}
    THEN 48 + (CHOOSE d \in 0..9 : <<"0", "1", "2", "3", "4", "5", "6", "7", "8", "9">>[d + 1] = ch)
    ELSE IF ch = "a" THEN 97 ELSE IF ch = "b" THEN 98 ELSE IF ch = "c" THEN 99
    ELSE IF ch = "h" THEN 104 ELSE IF ch = "o" THEN 111 ELSE IF ch = "r" THEN 114
    ELSE IF ch = "t" THEN 116 ELSE 117

\* s sorts before t in Array.prototype.sort without a comparator
Before(s, t) ==
    \/ \E k \in 1..Len(s) :
          /\ k <= Len(t)
          /\ CharCode(s[k]) < CharCode(t[k])
          /\ \A j \in 1..(k - 1) : s[j] = t[j]
    \/ Len(s) < Len(t) /\ \A j \in 1..Len(s) : s[j] = t[j]

\* [authorId, coauthorId].sort().join('-')
EdgeKey(a, b) == IF Before(b, a) THEN b \o <<"-">> \o a ELSE a \o <<"-">> \o b

\* edges.push unless edgeSet has the key
PushNew(edges, edge) ==
    IF \E k \in 1..Len(edges) :
          EdgeKey(edges[k].source, edges[k].target) = EdgeKey(edge.source, edge.target)
    THEN edges ELSE Append(edges, edge)

RECURSIVE PushedUpTo(_, _)
PushedUpTo(candidates, n) ==
    IF n = 0 THEN <<>> ELSE PushNew(PushedUpTo(candidates, n - 1), candidates[n])

NetworkOf(ps, ids, all) ==
    [nodes |-> NodesOf(ps, ids, all),
     edges |-> PushedUpTo(Candidates(ps, ids, Len(ids)), Len(Candidates(ps, ids, Len(ids))))]

buildAuthorNetwork(ps) == NetworkOf(ps, Distinct(FlatIds(ps, Len(ps))), FlatIds(ps, Len(ps)))

\* the authors of the papers of the model: two of the ids hold a '-', one
\* author has no id
Authors ==
    {[id |-> <<"a">>, name |-> <<"A">>],
     [id |-> <<"c">>, name |-> <<"C">>],
     [id |-> <<"a", "-", "b">>, name |-> <<"A", "B">>],
     [id |-> <<"b", "-", "c">>, name |-> <<"B", "C">>],
     [id |-> <<>>, name |-> <<"N">>]}

\* the author lists of a paper
AuthorLists == UNION { [1..n -> Authors] : n \in 1..MaxAuthors }

\* the two decimal digits of i, 0 <= i <= 99
TwoDigits(i) ==
    <<<<"0", "1", "2", "3", "4", "5", "6", "7", "8", "9">>[(i \div 10) + 1],
      <<"0", "1", "2", "3", "4", "5", "6", "7", "8", "9">>[(i % 10) + 1]>>

\* the authors of `size` single-author works, "A01", "A02", ...: every third
\* author has two papers, the others one
NetOfSize(size) ==
    [nodes |-> [i \in 1..size |-> [id |-> <<"a">> \o TwoDigits(i), name |-> <<"A">> \o TwoDigits(i),
                                   count |-> IF i % 3 = 0 THEN 2 ELSE 1]],
     edges |-> <<>>]

\* one author more than MAX_NODES_TO_DISPLAY
NetCrowd == NetOfSize(81)

\* ten authors more than MAX_NODES_TO_DISPLAY
NetThrong == NetOfSize(90)

\* the networks with more authors than are displayed
CrowdNetworks == {NetCrowd, NetThrong}

\* the networks that arrive while rebuilds, searches and clicks interleave
Networks == {NetEmpty, NetSolo, NetTriple, NetPair, NetLoop, NetChain}

\* the networks of the undisturbed runs
RunNetworks == Networks \cup {NetHeavy, NetEight, NetLight, NetFive}

\* the connected networks of the layouts that are left to settle
SettleNetworks == {NetLight, NetChain, NetQuintet}

\* the texts typed into the search box
SearchTexts == {<<>>, <<"a">>, <<"z">>}

\* the texts searched for among many authors
CrowdTexts == {<<"a">>, <<"0">>, <<"1">>, <<"z">>}

\* ------------------------------------------------------------------------
\* drawNetwork3D: the displayed nodes and links, the initial placement

MAX_NODES_TO_DISPLAY == 80

InitRadius == 100

\* cos and sin of phi = 2 * PI * index * 0.618, index = 0, 1, ..., in UnitScale
CosPhi ==
    <<10000, -7375, 879, 6079, -9846, 8443, -2608, -4596, 9387, -9251, 4258, 2970, -8639,
      9773, -5776, -1253, 7624, -9993, 7115, -502, -6374, 9905, -8235, 2243, 4927, -9511,
      9101, -3914, -3328, 8823, -9686, 5464, 1626, -7863, 9972, -6845, 126, 6660, -9950,
      8016, -1874, -5252, 9620, -8938, 3564, 3681, -8994, 9585, -5144, -1997, 8090, -9936,
      6566, 251, -6937, 9980, -7785, 1502, 5569, -9716, 8763, -3209, -4029, 9152, -9471,
      4818, 2365, -8306, 9887, -6277, -628, 7203, -9997, 7543, -1129, -5878, 9799, -8575,
      2850, 4371, -9298, 9343, -4484, -2730, 8510, -9823, 5979, 1004, -7459, 9999, -7290,
      753, 6179, -9867, 8375, -2487, -4707, 9430, -9202, 4144>>

SinPhi ==
    <<0, -6753, 9961, -7940, 1750, 5358, -9654, 8881, -3446, -3798, 9048, -9549, 5036,
      2120, -8163, 9921, -6471, -377, 7026, -9987, 7705, -1378, -5673, 9745, -8702, 3090,
      4144, -9202, 9430, -4707, -2487, 8375, -9867, 6179, 753, -7290, 9999, -7459, 1004,
      5979, -9823, 8510, -2730, -4484, 9343, -9298, 4371, 2850, -8575, 9799, -5878, -1129,
      7543, -9997, 7203, -628, -6277, 9887, -8306, 2365, 4818, -9471, 9152, -4029, -3209,
      8763, -9716, 5569, 1502, -7785, 9980, -6937, 251, 6566, -9936, 8090, -1997, -5144,
      9585, -8994, 3681, 3564, -8938, 9620, -5252, -1874, 8016, -9950, 6660, 126, -6845,
      9972, -7863, 1626, 5464, -9686, 8823, -3328, -3914, 9101>>

\* the point of the sphere with the given cos(theta), at the longitude of `index`
OnSphere(index, ring, cosTheta) ==
    Vec(MulDiv(ring, CosPhi[index + 1], UnitScale),
        MulDiv(ring, SinPhi[index + 1], UnitScale),
        MulDiv(InitRadius * PosScale, cosTheta, UnitScale))

\* radius * sin(theta) and cos(theta), theta = Math.acos(cosTheta)
AtLatitude(index, cosTheta) ==
    OnSphere(index,
             MulDiv(InitRadius * PosScale, Isqrt(Sq(UnitScale) - Sq(cosTheta)), UnitScale),
             cosTheta)

\* a placement whose index / n is rounded down to an integer
InitialPositionFloored(index, n) == AtLatitude(index, 2 * (index \div n) * UnitScale - UnitScale)

\* the position given to the node at `index` of `n` displayed nodes:
\* cos(theta) = 2 * (index / n) - 1
InitialPosition(index, n) == AtLatitude(index, TruncDiv(2 * index * UnitScale, n) - UnitScale)

NodeIds(ns) == { ns[i].id : i \in 1..Len(ns) }

\* Array.prototype.find by id: the index of the first node with that id, 0 if none
FindNode(ns, id) ==
    IF \E i \in 1..Len(ns) : ns[i].id = id
    THEN CHOOSE i \in 1..Len(ns) : ns[i].id = id /\ \A j \in 1..(i - 1) : ns[j].id # id
    ELSE 0

\* the index of the first node of largest count
BestIndex(ns) ==
    CHOOSE i \in 1..Len(ns) :
        /\ \A j \in 1..Len(ns) : ns[j].count <= ns[i].count
        /\ \A j \in 1..(i - 1) : ns[j].count < ns[i].count

Without(ns, i) == [k \in 1..(Len(ns) - 1) |-> IF k < i THEN ns[k] ELSE ns[k + 1]]

\* [...nodes].sort((a, b) => b.count - a.count): stable, by descending count
RECURSIVE SortByCount(_)
SortByCount(ns) ==
    IF ns = <<>> THEN <<>>
    ELSE <<ns[BestIndex(ns)]>> \o SortByCount(Without(ns, BestIndex(ns)))

\* the ids of the nodes that match the search text
MatchedNodeIds(net, text) ==
    { net.nodes[i].id : i \in { k \in 1..Len(net.nodes) : isNodeMatched(net.nodes[k], text) } }

\* the ids of the nodes an edge joins to one of `ids`
ConnectedNodeIds(net, ids) ==
    { net.edges[e].target : e \in { k \in 1..Len(net.edges) : net.edges[k].source \in ids } }
    \cup { net.edges[e].source : e \in { k \in 1..Len(net.edges) : net.edges[k].target \in ids } }

\* network.nodes.filter((node) => allDisplayNodeIds.has(node.id))
NodesAmong(net, ids) == SelectSeq(net.nodes, LAMBDA node : node.id \in ids)

\* the matched nodes and the nodes connected to them
WithConnected(net, matched) == NodesAmong(net, matched \cup ConnectedNodeIds(net, matched))

\* nodesToDisplay
NodesToDisplay(net, text) ==
    IF HasSearch(text) THEN WithConnected(net, MatchedNodeIds(net, text))
    ELSE IF Len(net.nodes) <= MAX_NODES_TO_DISPLAY THEN net.nodes
    ELSE SubSeq(SortByCount(net.nodes), 1, MAX_NODES_TO_DISPLAY)

\* networkEdges.filter((edge) => ids.has(edge.source) && ids.has(edge.target))
EdgesAmong(net, ids) ==
    SelectSeq(net.edges, LAMBDA edge : edge.source \in ids /\ edge.target \in ids)

\* every edge of the network, whatever nodes are displayed
LinksUnfiltered(net, text, shown) == net.edges

\* linksToDisplay, the displayed nodes being `shown`
LinksToDisplay(net, text, shown) ==
    IF ~HasSearch(text) /\ Len(net.nodes) <= MAX_NODES_TO_DISPLAY THEN net.edges
    ELSE EdgesAmong(net, NodeIds(shown))

\* nodes3D: every node of `shown` at its initial position, at rest, with its sphere
\* mesh; sphere is the mesh's position, world the translation of its matrixWorld
\* (the identity until the mesh is rendered), which is what a Raycaster reads
Nodes3D(shown) ==
    [i \in 1..Len(shown) |->
        [id |-> shown[i].id, name |-> shown[i].name, count |-> shown[i].count,
         position |-> InitialPosition(i - 1, Len(shown)),
         velocity |-> ZeroVec,
         sphere |-> InitialPosition(i - 1, Len(shown)),
         world |-> ZeroVec]]

NoLine == [drawn |-> FALSE, from |-> ZeroVec, to |-> ZeroVec]

\* setFromPoints([sourceNode.position, targetNode.position]) for the nodes at
\* indices s and t; a link with an endpoint that is not a node keeps `old`
LineBetween(ns, s, t, old) ==
    IF s = 0 \/ t = 0 THEN old
    ELSE [drawn |-> TRUE, from |-> ns[s].position, to |-> ns[t].position]

LineOf(ns, link, old) == LineBetween(ns, FindNode(ns, link.source), FindNode(ns, link.target), old)

\* links3D with their lines, drawn between the nodes ns
Links3D(shown, ns) ==
    [i \in 1..Len(shown) |->
        [source |-> shown[i].source, target |-> shown[i].target, weight |-> shown[i].weight,
         line |-> LineOf(ns, shown[i], NoLine)]]

LayoutOf(ns, shownLinks) == [nodes |-> ns, links |-> Links3D(shownLinks, ns)]

LayoutFor(net, text, shown) == LayoutOf(Nodes3D(shown), LinksToDisplay(net, text, shown))

\* nodesRef.current and linksRef.current as drawNetwork3D assigns them, for
\* every network and search text of the model
FreshLayout ==
    [net \in RunNetworks \cup SettleNetworks \cup CrowdNetworks, text \in SearchTexts \cup CrowdTexts |-> LayoutFor(net, text, NodesToDisplay(net, text))]

\* ------------------------------------------------------------------------
\* simulatePhysics: the constants of the force model

\* damping = 0.7 = dampingNum / dampingDen
dampingNum == 7

dampingDen == 10

repulsionStrength == 15

\* attractionStrength = 0.004, in thousandths
attractionStrengthMilli == 4

stableFramesRequired == 15

\* 0.8 in VelScale
maxVelocity == (8 * VelScale) \div 10

\* 5 in PosScale
minDistance == 5 * PosScale

\* 0.02 in VelScale
stabilityThreshold == (2 * VelScale) \div 100

\* 80 in PosScale
idealDistance == 80 * PosScale

\* the 0.001 below which an attraction is not applied, in VelScale
forceEpsilon == VelScale \div 1000

\* the 0.003 below which a velocity is set to zero, in VelScale
deadZone == (3 * VelScale) \div 1000

\* 150 in PosScale
maxDistance == 150 * PosScale

\* ------------------------------------------------------------------------
\* simulatePhysics: repulsion

\* a repulsion that falls off with the distance, not with its square
RepulsionForceLinear(distance) ==
    (repulsionStrength * VelScale * 100) \div (distance \div (PosScale \div 100) + 100)

\* repulsionStrength / (distance * distance + 1), in VelScale; the distance
\* is squared in hundredths of a unit
RepulsionForce(distance) ==
    (repulsionStrength * VelScale * Sq(100)) \div (Sq(distance \div (PosScale \div 100)) + Sq(100))

\* the force of nodeB on nodeA, their distance being known
RepulsionAt(posA, posB, distance) ==
    IF distance > minDistance
    THEN VScale(Normalize(VSub(posA, posB)), RepulsionForce(distance), UnitScale)
    ELSE ZeroVec

\* what nodeB adds to the velocity of nodeA
RepulsionOn(posA, posB) ==
    IF posA.nan \/ posB.nan THEN ZeroVec ELSE RepulsionAt(posA, posB, Distance(posA, posB))

\* the inner forEach over nodeB, from index j on, accumulated into v
RECURSIVE RepelFrom(_, _, _, _)
RepelFrom(ns, i, j, v) ==
    IF j > Len(ns) THEN v
    ELSE IF i = j THEN RepelFrom(ns, i, j + 1, v)
    ELSE RepelFrom(ns, i, j + 1, VAdd(v, RepulsionOn(ns[i].position, ns[j].position)))

\* the velocities after damping and repulsion
Repelled(ns) ==
    [i \in 1..Len(ns) |-> RepelFrom(ns, i, 1, VScale(ns[i].velocity, dampingNum, dampingDen))]

\* ------------------------------------------------------------------------
\* simulatePhysics: attraction

\* an attraction that does not depend on the weight of the link
AttractionForceUnweighted(distance, weight) ==
    TruncDiv((distance - idealDistance) * attractionStrengthMilli * (VelScale \div PosScale), 1000)

\* (distance - idealDistance) * attractionStrength * (link.weight || 1), in VelScale
AttractionForce(distance, weight) ==
    TruncDiv((distance - idealDistance) * (IF weight = 0 THEN 1 ELSE weight)
                 * attractionStrengthMilli * (VelScale \div PosScale), 1000)

\* sourceNode.velocity.add(direction.multiplyScalar(force));
\* targetNode.velocity.sub(direction.multiplyScalar(force)):
\* `scaled` is the direction after the first multiplyScalar, which the second
\* multiplyScalar scales by force once more
Pull(vs, s, t, scaled, force) ==
    [[vs EXCEPT ![s] = VAdd(@, scaled)] EXCEPT ![t] = VSub(@, VScale(scaled, force, VelScale))]

\* a link between the nodes at indices s and t, its force and direction known
AttractWith(vs, s, t, force, direction) ==
    IF Abs(force) > forceEpsilon THEN Pull(vs, s, t, VScale(direction, force, UnitScale), force)
    ELSE vs

\* a link between the nodes at indices s and t (0: no such node)
AttractBetween(ns, s, t, weight, vs) ==
    IF s = 0 \/ t = 0 THEN vs
    ELSE IF ns[s].position.nan \/ ns[t].position.nan THEN vs
    ELSE AttractWith(vs, s, t,
                     AttractionForce(Distance(ns[s].position, ns[t].position), weight),
                     Normalize(VSub(ns[t].position, ns[s].position)))

\* one link applied to the velocities vs
AttractOne(ns, link, vs) ==
    AttractBetween(ns, FindNode(ns, link.source), FindNode(ns, link.target), link.weight, vs)

\* links.forEach from index k on
RECURSIVE Attracted(_, _, _, _)
Attracted(ns, ls, k, vs) ==
    IF k > Len(ls) THEN vs ELSE Attracted(ns, ls, k + 1, AttractOne(ns, ls[k], vs))

\* ------------------------------------------------------------------------
\* simulatePhysics: integration

\* a velocity that is never limited
UnlimitedSpeed(v) == v

\* speed > maxVelocity: velocity.normalize().multiplyScalar(maxVelocity)
LimitSpeed(v) ==
    IF ~v.nan /\ Length(v) > maxVelocity THEN VScale(Normalize(v), maxVelocity, UnitScale) ELSE v

\* a position that is never brought back
UnlimitedPosition(p) == p

\* position.length() > maxDistance: position.normalize().multiplyScalar(maxDistance)
LimitPosition(p) ==
    IF ~p.nan /\ Length(p) > maxDistance THEN VScale(Normalize(p), maxDistance, UnitScale) ELSE p

\* speed < 0.003
InDeadZone(v) == ~v.nan /\ Length(v) < deadZone

\* a step of the whole velocity
VelocityStepWhole(v) == VScale(v, PosScale, VelScale)

\* velocity.clone().multiplyScalar(0.5), in PosScale
VelocityStep(v) == VScale(v, PosScale, 2 * VelScale)

\* the velocity a node keeps
NextVelocity(v) == IF InDeadZone(v) THEN ZeroVec ELSE LimitSpeed(v)

\* the position a node moves to
NextPosition(position, v) ==
    LimitPosition(IF InDeadZone(v) THEN position ELSE VAdd(position, VelocityStep(LimitSpeed(v))))

\* the node and its sphere at position p, moving at velocity v
NodeAt(node, p, v) == [node EXCEPT !.velocity = v, !.position = p, !.sphere = p]

\* one node of the last forEach, given its accumulated velocity v
Integrated(node, v) == NodeAt(node, NextPosition(node.position, v), NextVelocity(v))

\* maxSpeed < stabilityThreshold, maxSpeed being the Math.max of the speeds
\* before limiting (NaN as soon as one speed is NaN)
Quiet(vs) == \A i \in 1..Len(vs) : ~vs[i].nan /\ Length(vs[i]) < stabilityThreshold

\* a transition to stable that leaves the velocities as they are
KeepVelocities(ns) == ns

\* node.velocity.set(0, 0, 0) for every node
ZeroVelocities(ns) == [i \in 1..Len(ns) |-> [ns[i] EXCEPT !.velocity = ZeroVec]]

\* the line of every link that has one, set from the positions of its endpoints
RefreshLines(ns, ls) ==
    [k \in 1..Len(ls) |->
        IF ls[k].line.drawn THEN [ls[k] EXCEPT !.line = LineOf(ns, ls[k], NoLine)] ELSE ls[k]]

\* ------------------------------------------------------------------------
\* The state of the component

VARIABLES
    network,           \* buildAuthorNetwork(applyFilter(papers, filter)) of the current props
    searchText,        \* the search box
    selectedAuthor,    \* the id of the selected node, or NoAuthor
    nodes,             \* nodesRef.current
    links,             \* linksRef.current
    attached,          \* the meshes of nodesRef.current are children of the scene
    isStable,          \* isStableRef.current
    stableFrameCount,  \* stableFrameCountRef.current
    animationFrame,    \* animationFrameRef.current: "pending", "none" (null), or
                       \* "cancelled" (the id of a callback that was cancelled)
    steps,             \* physics steps applied to nodesRef.current since it was assigned
    twin,              \* the refs of a second instance of the component, run beside the first
    camera,            \* cameraRef.current.position
    isDragging,        \* isDraggingRef.current
    cameraMoves,       \* mousemove and wheel events that have moved the camera
    lastMove,          \* history: the handler that last moved the camera, and
                       \* cameraRef.current.position as that handler found it
    papers,            \* the papers given to buildAuthorNetwork: the authors of each
    built,             \* what buildAuthorNetwork returned for them
    pendingFrames,     \* callbacks requested with requestAnimationFrame, neither run nor cancelled
    loopCleanup,       \* the last run of the loop effect returned its cleanup function
    renderedCamera,    \* the camera position of the last renderer.render, NoRender before it
    mounted,           \* the component is mounted
    listeners,         \* the event listeners of initScene that are attached
    clickTimer,        \* setTimeout(setupClickHandler, 100) has not fired yet
    clickHandler       \* the local clickHandler of initScene is not null

\* what belongs to the second instance
aside == <<twin>>

\* the papers and their network
props == <<papers, built>>

\* the camera and the mouse
view == <<camera, isDragging, cameraMoves, lastMove>>

\* the animation loop: the browser's queue of frames, the loop effect, the canvas
loop == <<pendingFrames, loopCleanup, renderedCamera>>

\* the component in its page: what initScene attached to the DOM
page == <<mounted, listeners, clickTimer, clickHandler>>

vars == <<network, searchText, selectedAuthor, nodes, links, attached, isStable,
          stableFrameCount, animationFrame, steps, aside, view, props, loop, page>>

NoAuthor == <<>>

\* no render yet: the camera is never at the origin
NoRender == ZeroVec

\* the listeners of initScene: mousedown and wheel on the container, mousemove
\* and mouseup on the window
PointerListeners == {"mousedown", "mousemove", "mouseup", "wheel"}

\* with the click listener that setupClickHandler adds
AllListeners == PointerListeners \cup {"click"}

\* the refs of an instance that has drawn nothing
NoEngine == [nodes |-> <<>>, links |-> <<>>, isStable |-> FALSE,
             stableFrameCount |-> 0, animationFrame |-> "pending"]

\* the refs simulatePhysics reads and writes
Engine == [nodes |-> nodes, links |-> links, isStable |-> isStable,
           stableFrameCount |-> stableFrameCount, animationFrame |-> animationFrame]

\* ------------------------------------------------------------------------
\* drawNetwork3D as a whole

\* the node `fresh` with the position and velocity of the old node at index i
\* (0: there is no old node of that id)
KeptFrom(fresh, oldNodes, i) ==
    IF i = 0 THEN fresh
    ELSE [fresh EXCEPT !.position = oldNodes[i].position, !.velocity = oldNodes[i].velocity]

MergedLayout(layout, merged) == [nodes |-> merged, links |-> layout.links, attached |-> TRUE]

\* a rebuild that keeps the position and velocity of every node that stays
DrawnKeepingOld(net, text, oldNodes, oldLinks) ==
    IF Len(net.nodes) = 0
    THEN [nodes |-> oldNodes, links |-> oldLinks, attached |-> FALSE]
    ELSE MergedLayout(FreshLayout[net, text],
                      [i \in 1..Len(FreshLayout[net, text].nodes) |->
                          KeptFrom(FreshLayout[net, text].nodes[i], oldNodes,
                                   FindNode(oldNodes, FreshLayout[net, text].nodes[i].id))])

\* the old meshes leave the scene; with an empty network the function returns
\* there, before nodesRef and linksRef are assigned
Drawn(net, text, oldNodes, oldLinks) ==
    IF Len(net.nodes) = 0
    THEN [nodes |-> oldNodes, links |-> oldLinks, attached |-> FALSE]
    ELSE [nodes |-> FreshLayout[net, text].nodes, links |-> FreshLayout[net, text].links,
          attached |-> TRUE]

\* ------------------------------------------------------------------------
\* simulatePhysics as a whole

\* the refs after the step: the nodes as they end and the stability detection
Detected(eng, after, quiet, becomesStable) ==
    [nodes |-> after,
     links |-> RefreshLines(after, eng.links),
     isStable |-> eng.isStable \/ becomesStable,
     stableFrameCount |-> IF quiet THEN eng.stableFrameCount + 1 ELSE 0,
     animationFrame |-> IF becomesStable THEN "none" ELSE eng.animationFrame]

\* the nodes after integration; stable once the count reaches stableFramesRequired
Settled(eng, moved, quiet, becomesStable) ==
    Detected(eng, IF becomesStable THEN ZeroVelocities(moved) ELSE moved, quiet, becomesStable)

\* the count compared one frame too late
CountedLate(eng, moved, quiet) ==
    Settled(eng, moved, quiet, quiet /\ eng.stableFrameCount >= stableFramesRequired)

\* stableFrameCountRef.current++ and its comparison with stableFramesRequired
Counted(eng, moved, quiet) ==
    Settled(eng, moved, quiet, quiet /\ eng.stableFrameCount + 1 >= stableFramesRequired)

\* the step, the accumulated velocities being vs
Stepped(eng, vs) ==
    Counted(eng, [i \in 1..Len(eng.nodes) |-> Integrated(eng.nodes[i], vs[i])], Quiet(vs))

\* the force model, run when there are nodes, no search and no stability yet
PhysicsStep(eng) == Stepped(eng, Attracted(eng.nodes, eng.links, 1, Repelled(eng.nodes)))

\* a step that runs the force model whatever the search text is
simulatePhysicsIgnoringSearch(eng, text) ==
    IF Len(eng.nodes) = 0 THEN eng
    ELSE IF eng.isStable THEN [eng EXCEPT !.links = RefreshLines(eng.nodes, eng.links)]
    ELSE PhysicsStep(eng)

\* a step that runs the force model whether stable or not
simulatePhysicsIgnoringStable(eng, text) ==
    IF Len(eng.nodes) = 0 THEN eng
    ELSE IF HasSearch(text) THEN [eng EXCEPT !.links = RefreshLines(eng.nodes, eng.links)]
    ELSE PhysicsStep(eng)

simulatePhysics(eng, text) ==
    IF Len(eng.nodes) = 0 THEN eng
    ELSE IF HasSearch(text) \/ eng.isStable
    THEN [eng EXCEPT !.links = RefreshLines(eng.nodes, eng.links)]
    ELSE PhysicsStep(eng)

\* the call runs the force model
RunsPhysics(eng, text) == Len(eng.nodes) > 0 /\ ~HasSearch(text) /\ ~eng.isStable

\* renderer.render: the scene updates the matrixWorld of the meshes it holds
Rendered(ns, inScene) ==
    IF inScene THEN [i \in 1..Len(ns) |-> [ns[i] EXCEPT !.world = ns[i].sphere]] ELSE ns

\* ------------------------------------------------------------------------
\* clickHandler: picking with a THREE.Raycaster

\* camera.position.set(0, 0, 300)
cameraPosition == Vec(0, 0, 300 * PosScale)

\* Math.sqrt(node.count) * 2 + 3, in PosScale
SphereRadius(count) == 2 * Isqrt(count * PosScale * PosScale) + 3 * PosScale

\* a point in tenths of a unit, the precision of the intersection test
Tenths(v) == Shrunk(v, PosScale \div 10)

\* the distance at which the ray enters the sphere, given the distance `along`
\* the ray of the point nearest the centre and the square `off2` of the
\* distance from the centre to the ray; -1 when the ray misses the sphere or
\* starts inside or behind it
EntryAt(along, off2, r) ==
    IF off2 > Sq(r) THEN -1
    ELSE IF along - Isqrt(Sq(r) - off2) <= 0 THEN -1
    ELSE along - Isqrt(Sq(r) - off2)

EntryAlong(oc, along, r) == EntryAt(along, Dot(oc, oc) - Sq(along), r)

\* d: the direction of the ray, of length lenD; oc: from the origin to the centre
EntryFor(d, lenD, oc, r) == IF lenD = 0 THEN -1 ELSE EntryAlong(oc, TruncDiv(Dot(oc, d), lenD), r)

EntryOf(d, oc, r) == EntryFor(d, Isqrt(Dot(d, d)), oc, r)

\* the distance along the ray from `origin` through `target` at which it enters
\* the sphere (centre, radius), in tenths of a unit; -1 when it does not
HitDistance(origin, target, centre, radius) ==
    IF centre.nan THEN -1
    ELSE EntryOf(VSub(Tenths(target), Tenths(origin)), VSub(Tenths(centre), Tenths(origin)),
                 radius \div (PosScale \div 10))

\* the first of the intersections sorted by distance: the index of the least
\* entry of ds that is not -1 (the first such index); 0 when all are -1
Nearest(ds) ==
    IF \A i \in DOMAIN ds : ds[i] < 0 THEN 0
    ELSE CHOOSE i \in DOMAIN ds :
            /\ ds[i] >= 0
            /\ \A j \in DOMAIN ds : ds[j] < 0 \/ ds[i] < ds[j] \/ (ds[i] = ds[j] /\ i <= j)

\* raycaster.intersectObjects(spheres)[0]: the index in nodesRef of the node whose
\* sphere the ray enters first, 0 when the ray enters none
Pick(ns, origin, target) ==
    Nearest([i \in 1..Len(ns) |->
                HitDistance(origin, target, ns[i].world, SphereRadius(ns[i].count))])

\* a point no sphere is near: a click beside the graph
OffTarget == Vec(400 * PosScale, 0, 0)

\* where the user clicks: on a node as last rendered, or beside the graph
ClickTargets == { nodes[i].world : i \in 1..Len(nodes) } \cup {OffTarget}

\* ------------------------------------------------------------------------
\* Angles, in fixed point: an angle is an integer count of 1/AngleScale radians

AngleScale == 10000

\* Math.PI in AngleScale
Pi == 31416

HalfPi == Pi \div 2

\* the scale in which the cosine series is summed
FineScale == 100000000

\* a / b rounded to the nearest integer, b > 0
RoundDiv(a, b) == TruncDiv(2 * a + Sign(a) * b, 2 * b)

\* 1 - f * x2 / d, f in FineScale, x2 the square of the angle in AngleScale
SeriesStep(f, x2, d) == FineScale - MulDiv(f, x2, AngleScale) \div d

\* 1 - x2/2 (1 - x2/12 (1 - x2/30 (1 - x2/56 (1 - x2/90)))), in FineScale
CosSeries(x2) ==
    SeriesStep(SeriesStep(SeriesStep(SeriesStep(SeriesStep(FineScale, x2, 90), x2, 56), x2, 30),
                          x2, 12), x2, 2)

\* Math.cos of an angle in [0, PI/2], in UnitScale
CosAcute(a) == RoundDiv(CosSeries(MulDiv(a, a, AngleScale)), FineScale \div UnitScale)

\* Math.cos of an angle in [0, PI]
CosHalfTurn(a) == IF a > HalfPi THEN -CosAcute(Pi - a) ELSE CosAcute(a)

\* Math.cos of an angle in [0, 2 PI)
CosTurn(a) == IF a > Pi THEN CosHalfTurn(2 * Pi - a) ELSE CosHalfTurn(a)

\* Math.cos, in UnitScale
Cos(a) == CosTurn(a % (2 * Pi))

\* Math.sin, in UnitScale
Sin(a) == Cos(a - HalfPi)

RECURSIVE AcosIter(_, _, _)
AcosIter(v, lo, hi) ==
    IF hi - lo <= 1 THEN (IF Abs(Cos(hi) - v) < Abs(Cos(lo) - v) THEN hi ELSE lo)
    ELSE IF Cos((lo + hi) \div 2) >= v THEN AcosIter(v, (lo + hi) \div 2, hi)
    ELSE AcosIter(v, lo, (lo + hi) \div 2)

\* Math.acos of v in UnitScale, -1 <= v <= 1: the angle in [0, PI] with that cosine
Acos(v) == AcosIter(v, 0, Pi)

\* Math.max(lo, Math.min(hi, v))
Clamp(lo, hi, v) == IF v < lo THEN lo ELSE IF v > hi THEN hi ELSE v

\* the angle in [0, PI/2] between the +z axis and the direction (|sx|, |sz|)
\* of length h, taken from the smaller of its two components
AngleFromAxis(sx, sz, h) ==
    IF Abs(sx) <= Abs(sz) THEN HalfPi - Acos(RoundDiv(Abs(sx) * UnitScale, h))
    ELSE Acos(RoundDiv(Abs(sz) * UnitScale, h))

\* Math.atan2(sx, sz) for a direction (sx, sz) of length h > 0
Atan2By(sx, sz, h) ==
    IF sz >= 0 THEN Sign(sx) * AngleFromAxis(sx, sz, h)
    ELSE Sign(sx) * (Pi - AngleFromAxis(sx, sz, h))

\* Math.atan2(sx, sz); 0 for the zero direction
Atan2(sx, sz) == IF sx = 0 /\ sz = 0 THEN 0 ELSE Atan2By(sx, sz, Isqrt(Sq(sx) + Sq(sz)))

\* ------------------------------------------------------------------------
\* THREE.Spherical and the camera handlers of initScene

\* ROTATE_SPEED = 0.0015 radians for a pixel, in AngleScale
rotateSpeed == (15 * AngleScale) \div 10000

\* ZOOM_SPEED = 0.005 for a unit of deltaY, in PosScale
zoomSpeed == (5 * PosScale) \div 1000

\* the 0.1 of Math.max(0.1, Math.min(Math.PI - 0.1, phi))
minPhi == AngleScale \div 10

maxPhi == Pi - AngleScale \div 10

\* the 150 and 500 of Math.max(150, Math.min(500, distance + delta))
minZoom == 150 * PosScale

maxZoom == 500 * PosScale

\* Math.acos(clamp(y / radius, -1, 1)) for the shrunk vector s of length h:
\* the angle between the +y axis and s, taken from the smaller of |y| and the
\* distance of s from that axis
PhiOf(s, h) ==
    IF s.y >= 0 THEN AngleFromAxis(Isqrt(Sq(s.x) + Sq(s.z)), s.y, h)
    ELSE Pi - AngleFromAxis(Isqrt(Sq(s.x) + Sq(s.z)), s.y, h)

\* theta and phi of the direction of the shrunk vector s
AnglesOf(s, radius) ==
    IF radius = 0 THEN [radius |-> 0, theta |-> 0, phi |-> 0]
    ELSE [radius |-> radius, theta |-> Atan2(s.x, s.z), phi |-> PhiOf(s, Isqrt(Dot(s, s)))]

\* Spherical.setFromVector3
SphericalOf(p) == AnglesOf(Shrunk(p, Shrink(p)), Length(p))

\* Vector3.setFromSpherical, sinPhiRadius being Math.sin(phi) * radius
FromSphericalBy(sph, sinPhiRadius) ==
    Vec(MulDiv(sinPhiRadius, Sin(sph.theta), UnitScale),
        MulDiv(sph.radius, Cos(sph.phi), UnitScale),
        MulDiv(sinPhiRadius, Cos(sph.theta), UnitScale))

FromSpherical(sph) == FromSphericalBy(sph, MulDiv(sph.radius, Sin(sph.phi), UnitScale))

\* a phi that is left as the drag made it
UnclampedPhi(phi) == phi

\* Math.max(0.1, Math.min(Math.PI - 0.1, spherical.phi))
ClampPhi(phi) == Clamp(minPhi, maxPhi, phi)

\* spherical.theta -= deltaX * ROTATE_SPEED; spherical.phi += deltaY * ROTATE_SPEED
Rotated(sph, deltaX, deltaY) ==
    [sph EXCEPT !.theta = @ - deltaX * rotateSpeed, !.phi = ClampPhi(@ + deltaY * rotateSpeed)]

\* the camera position after handleMouseMove
Dragged(p, deltaX, deltaY) == FromSpherical(Rotated(SphericalOf(p), deltaX, deltaY))

\* Math.max(150, Math.min(500, distance + delta))
ClampZoom(distance) == Clamp(minZoom, maxZoom, distance)

\* position.normalize().multiplyScalar(newDistance) for a position of length
\* k * h: each component times newDistance / (k * h)
Rescaled(p, newDistance, k, h) ==
    IF h = 0 THEN VScale(p, newDistance, 1) ELSE VScale(p, newDistance \div k, h)

\* the camera position after handleWheel
Zoomed(p, deltaY) ==
    Rescaled(p, ClampZoom(Length(p) + deltaY * zoomSpeed), Shrink(p),
             Isqrt(Dot(Shrunk(p, Shrink(p)), Shrunk(p, Shrink(p)))))

\* ------------------------------------------------------------------------
\* The component

\* after the mount effects: empty papers, the scene built, the loop requested
Started ==
    /\ network = NetEmpty
    /\ searchText = <<>>
    /\ selectedAuthor = NoAuthor
    /\ nodes = <<>>
    /\ links = <<>>
    /\ attached = FALSE
    /\ isStable = FALSE
    /\ stableFrameCount = 0
    /\ animationFrame = "pending"
    /\ steps = 0
    /\ twin = NoEngine
    /\ camera = cameraPosition
    /\ isDragging = FALSE
    /\ cameraMoves = 0
    /\ lastMove = [by |-> "none", from |-> cameraPosition]
    /\ papers = <<>>
    /\ built = NetEmpty
    /\ pendingFrames = 1
    /\ loopCleanup = TRUE
    /\ renderedCamera = NoRender
    /\ mounted = TRUE

\* the mounted component once the timer of initScene has installed the click
\* handler
Init ==
    /\ Started
    /\ listeners = AllListeners
    /\ clickTimer = FALSE
    /\ clickHandler = TRUE

\* the effect that runs drawNetwork3D, with the props and state of the new render
Redraw(net, text) ==
    \E d \in {Drawn(net, text, nodes, links)} :
       /\ nodes' = d.nodes
       /\ links' = d.links
       /\ attached' = d.attached
       /\ steps' = IF Len(net.nodes) = 0 THEN steps ELSE 0

\* new papers or a new filter arrive: drawNetwork3D changes, its effect runs
PropsChange(net) ==
    /\ network' = net
    /\ Redraw(net, searchText)
    /\ UNCHANGED <<searchText, selectedAuthor, isStable, stableFrameCount, animationFrame, aside, view, props, loop, page>>

\* cancelAnimationFrame(animationFrameRef.current): the callbacks left pending
Cancelled(ref, pending) == IF ref = "pending" /\ pending > 0 THEN pending - 1 ELSE pending

\* a cleanup that cancels nothing
AfterCleanupKept(registered, ref, pending) == pending

\* the cleanup of the loop effect, when the effect returned one: the callbacks
\* left pending
AfterCleanup(registered, ref, pending) ==
    IF registered THEN Cancelled(ref, pending) ELSE pending

\* the search box changes: drawNetwork3D and simulatePhysics change; the draw
\* effect runs, the loop effect is cleaned up and runs again: when stable it
\* renders once, otherwise it requests a frame
SetSearchText(text) ==
    /\ text # searchText
    /\ searchText' = text
    /\ \E d \in {Drawn(network, text, nodes, links)} :
          /\ nodes' = IF isStable THEN Rendered(d.nodes, d.attached) ELSE d.nodes
          /\ links' = d.links
          /\ attached' = d.attached
          /\ steps' = IF Len(network.nodes) = 0 THEN steps ELSE 0
    /\ animationFrame' = IF ~isStable THEN "pending"
                         ELSE IF loopCleanup THEN "none" ELSE animationFrame
    /\ pendingFrames' = IF isStable THEN AfterCleanup(loopCleanup, animationFrame, pendingFrames)
                        ELSE AfterCleanup(loopCleanup, animationFrame, pendingFrames) + 1
    /\ loopCleanup' = ~isStable
    /\ renderedCamera' = IF isStable THEN camera ELSE renderedCamera
    /\ UNCHANGED <<network, selectedAuthor, isStable, stableFrameCount, aside, view, props, page>>

\* the browser runs a requested animation frame: startAnimation. The callback
\* that runs has left the queue, so the cancelAnimationFrame of simulatePhysics
\* finds nothing to cancel; an unstable frame requests the next one
FrameWithin(bound) ==
    /\ pendingFrames > 0
    /\ IF ~isStable
       THEN \E eng \in {simulatePhysics(Engine, searchText)} :
               /\ RunsPhysics(Engine, searchText) => steps < bound
               /\ nodes' = Rendered(eng.nodes, attached)
               /\ links' = eng.links
               /\ isStable' = eng.isStable
               /\ stableFrameCount' = eng.stableFrameCount
               /\ animationFrame' = "pending"
               /\ pendingFrames' = (pendingFrames - 1) + 1
               /\ renderedCamera' = camera
               /\ steps' = IF RunsPhysics(Engine, searchText) THEN steps + 1 ELSE steps
       ELSE /\ animationFrame' = "none"
            /\ pendingFrames' = pendingFrames - 1
            /\ UNCHANGED <<nodes, links, isStable, stableFrameCount, steps, renderedCamera>>
    /\ UNCHANGED <<network, searchText, selectedAuthor, attached, aside, view, props,
                   loopCleanup, page>>

Frame == FrameWithin(MaxSteps)

\* a click on the canvas: clickHandler; a changed selection changes
\* drawNetwork3D, whose effect runs
Click(target) ==
    \E hit \in {Pick(nodes, cameraPosition, target)} :
       /\ ~isDragging
       /\ selectedAuthor' = IF hit = 0 THEN NoAuthor ELSE nodes[hit].id
       /\ IF hit = 0 /\ selectedAuthor = NoAuthor
          THEN UNCHANGED <<nodes, links, attached, steps>>
          ELSE Redraw(network, searchText)
       /\ UNCHANGED <<network, searchText, isStable, stableFrameCount, animationFrame, aside, view, props, loop, page>>

Next ==
    \/ \E net \in Networks : PropsChange(net)
    \/ \E text \in SearchTexts : SetSearchText(text)
    \/ Frame
    \/ \E target \in ClickTargets : Click(target)

Spec == Init /\ [][Next]_vars

\* ------------------------------------------------------------------------
\* The component when its papers arrive once and the layout then runs from
\* the initial placement undisturbed, for as long as the loop lasts; once the
\* layout is stable, papers and search text change again

Load(net) == nodes = <<>> /\ network = NetEmpty /\ PropsChange(net)

RunFrame == FrameWithin(MaxRunSteps)

Reload(net) == isStable /\ PropsChange(net)

SearchWhenStable(text) == isStable /\ SetSearchText(text)

RunNext ==
    \/ \E net \in RunNetworks : Load(net)
    \/ RunFrame
    \/ \E net \in Networks : Reload(net)
    \/ \E text \in SearchTexts : SearchWhenStable(text)

RunSpec == Init /\ [][RunNext]_vars

\* ------------------------------------------------------------------------
\* Two instances of the component side by side: the first is given the pair
\* joined by an edge of weight 1, the second the same pair joined by an edge
\* of weight 5, and each animation frame runs simulatePhysics in both

\* the refs of an instance after its first drawNetwork3D
EngineOf(layout) == [NoEngine EXCEPT !.nodes = layout.nodes, !.links = layout.links]

TwinLoad ==
    /\ network = NetEmpty
    /\ nodes = <<>>
    /\ network' = NetLight
    /\ Redraw(NetLight, searchText)
    /\ twin' = EngineOf(Drawn(NetFive, searchText, <<>>, <<>>))
    /\ UNCHANGED <<searchText, selectedAuthor, isStable, stableFrameCount, animationFrame, view, props, loop, page>>

TwinFrame ==
    /\ Len(twin.nodes) > 0
    /\ ~isStable \/ ~twin.isStable
    /\ steps < MaxTwinSteps
    /\ \E eng \in {simulatePhysics(Engine, searchText)} :
          /\ nodes' = Rendered(eng.nodes, attached)
          /\ links' = eng.links
          /\ isStable' = eng.isStable
          /\ stableFrameCount' = eng.stableFrameCount
    /\ twin' = simulatePhysics(twin, searchText)
    /\ steps' = steps + 1
    /\ renderedCamera' = camera
    /\ UNCHANGED <<network, searchText, selectedAuthor, attached, animationFrame, view, props,
                   pendingFrames, loopCleanup, page>>

TwinNext == TwinLoad \/ TwinFrame

TwinSpec == Init /\ [][TwinNext]_vars

\* ------------------------------------------------------------------------
\* The component when the papers of a connected network arrive once and the
\* layout is left to settle

SettleFrame == FrameWithin(MaxSettleSteps)

SettleNext ==
    \/ \E net \in SettleNetworks : Load(net)
    \/ SettleFrame

SettleSpec == Init /\ [][SettleNext]_vars

\* ------------------------------------------------------------------------
\* The mouse on the canvas: the handlers that move the camera

\* where the pointer is, in pixels from where the button went down
DragDeltas == {-1000, 0, 1000}

\* deltaY of a wheel event
WheelDeltas == {-40000, -100, 100, 50000}

\* everything but the camera and the mouse
scene == <<network, searchText, selectedAuthor, nodes, links, attached, isStable,
           stableFrameCount, animationFrame, steps, aside, props, loop, page>>

handleMouseDown ==
    /\ isDragging' = TRUE
    /\ UNCHANGED <<camera, cameraMoves, lastMove, scene>>

handleMouseMove(deltaX, deltaY) ==
    /\ isDragging
    /\ cameraMoves < MaxCameraMoves
    /\ camera' = Dragged(camera, deltaX, deltaY)
    /\ lastMove' = [by |-> "handleMouseMove", from |-> camera]
    /\ cameraMoves' = cameraMoves + 1
    /\ UNCHANGED <<isDragging, scene>>

handleMouseUp ==
    /\ isDragging' = FALSE
    /\ UNCHANGED <<camera, cameraMoves, lastMove, scene>>

handleWheel(deltaY) ==
    /\ cameraMoves < MaxCameraMoves
    /\ camera' = Zoomed(camera, deltaY)
    /\ lastMove' = [by |-> "handleWheel", from |-> camera]
    /\ cameraMoves' = cameraMoves + 1
    /\ UNCHANGED <<isDragging, scene>>

CameraNext ==
    \/ handleMouseDown
    \/ \E deltaX, deltaY \in DragDeltas : handleMouseMove(deltaX, deltaY)
    \/ handleMouseUp
    \/ \E deltaY \in WheelDeltas : handleWheel(deltaY)

CameraSpec == Init /\ [][CameraNext]_vars

\* ------------------------------------------------------------------------
\* The papers of the component: every new list of papers is given to
\* buildAuthorNetwork

PapersArrive(paper) ==
    /\ Len(papers) < MaxPapers
    /\ papers' = Append(papers, paper)
    /\ built' = buildAuthorNetwork(Append(papers, paper))
    /\ UNCHANGED <<network, searchText, selectedAuthor, nodes, links, attached, isStable,
                   stableFrameCount, animationFrame, steps, aside, view, loop, page>>

PapersLeave ==
    /\ Len(papers) > 0
    /\ papers' = SubSeq(papers, 2, Len(papers))
    /\ built' = buildAuthorNetwork(SubSeq(papers, 2, Len(papers)))
    /\ UNCHANGED <<network, searchText, selectedAuthor, nodes, links, attached, isStable,
                   stableFrameCount, animationFrame, steps, aside, view, loop, page>>

BuildNext ==
    \/ \E paper \in AuthorLists : PapersArrive(paper)
    \/ PapersLeave

BuildSpec == Init /\ [][BuildNext]_vars

\* ------------------------------------------------------------------------
\* The component when its papers have more authors than are displayed

\* clicks on one of the first nodes as last rendered, or beside the graph
CrowdTargets == { nodes[i].world : i \in 1..Len(nodes) \cap 1..3 } \cup {OffTarget}

\* a search is typed before the papers arrive, and the box is not emptied
TypeSearch(text) == HasSearch(text) /\ SetSearchText(text)

CrowdArrives(net) == HasSearch(searchText) /\ PropsChange(net)

CrowdNext ==
    \/ \E net \in CrowdNetworks : CrowdArrives(net)
    \/ \E text \in CrowdTexts : TypeSearch(text)
    \/ Frame
    \/ \E target \in CrowdTargets : Click(target)
    \/ handleMouseDown
    \/ handleMouseUp

CrowdSpec == Init /\ [][CrowdNext]_vars

\* ------------------------------------------------------------------------
\* The life of the component in its page: from the mount effects, through
\* frames, searches and a moving camera once the layout is stable, to the
\* unmount; the browser runs every requested frame and every timer

\* mousemove and wheel events that move the camera of a stable layout
MaxViewMoves == 1

LifeNetworks == {NetSolo, NetPair}

\* as the mount effects leave the component: the pointer listeners attached,
\* setTimeout(setupClickHandler, 100) running
Mounting ==
    /\ Started
    /\ listeners = PointerListeners
    /\ clickTimer = TRUE
    /\ clickHandler = FALSE

\* the timer fires, mounted or not: the click handler is created and attached
setupClickHandler ==
    /\ clickTimer
    /\ clickTimer' = FALSE
    /\ clickHandler' = TRUE
    /\ listeners' = (IF clickHandler THEN listeners \ {"click"} ELSE listeners) \cup {"click"}
    /\ UNCHANGED <<mounted, network, searchText, selectedAuthor, nodes, links, attached,
                   isStable, stableFrameCount, animationFrame, steps, aside, view, props, loop>>

\* the cleanup returned by initScene: the listeners left attached
SceneCleanup(attachedListeners, handler) ==
    (attachedListeners \ PointerListeners) \ (IF handler THEN {"click"} ELSE {})

\* the component unmounts: the cleanup of the init effect (the cleanup of
\* initScene, then cancelAnimationFrame without clearing the ref), then the
\* cleanup of the loop effect if it returned one (the callback is cancelled
\* already; the ref is cleared)
Unmount ==
    /\ mounted
    /\ mounted' = FALSE
    /\ listeners' = SceneCleanup(listeners, clickHandler)
    /\ pendingFrames' = Cancelled(animationFrame, pendingFrames)
    /\ animationFrame' = IF loopCleanup \/ animationFrame = "none" THEN "none" ELSE "cancelled"
    /\ loopCleanup' = FALSE
    /\ UNCHANGED <<network, searchText, selectedAuthor, nodes, links, attached, isStable,
                   stableFrameCount, steps, aside, view, props, renderedCamera,
                   clickTimer, clickHandler>>

Arrive(net) == mounted /\ Load(net)

Search(text) == mounted /\ SetSearchText(text)

\* the mouse on the canvas of a stable layout, while the listeners are attached
StablePointer ==
    /\ isStable
    /\ PointerListeners \subseteq listeners
    /\ cameraMoves < MaxViewMoves
    /\ CameraNext

LifeNext ==
    \/ \E net \in LifeNetworks : Arrive(net)
    \/ Frame
    \/ \E text \in SearchTexts : Search(text)
    \/ StablePointer
    \/ setupClickHandler
    \/ Unmount

\* the last frame of the loop: the one requested by the frame that found the
\* layout stable
LastFrame == isStable /\ Frame

\* the browser runs the frame a stable layout has requested, and the timer
LifeSpec == Mounting /\ [][LifeNext]_vars /\ WF_vars(LastFrame) /\ WF_vars(setupClickHandler)

\* ------------------------------------------------------------------------
\* Properties of the simulation state

\* the same nodes with the same positions and velocities
SameMotion(before, after) ==
    /\ Len(before) = Len(after)
    /\ \A i \in 1..Len(before) :
          /\ after[i].id = before[i].id
          /\ after[i].position = before[i].position
          /\ after[i].velocity = before[i].velocity

\* a rebuild: drawNetwork3D runs on new props or a new search text
Rebuilt == network' # network \/ searchText' # searchText

\* C1: in every state where isStable is true, a call of simulatePhysics leaves
\* the position and the velocity of every node unchanged and leaves isStable
\* true, so the same holds for the next call
C1_Stickiness ==
    isStable =>
        /\ SameMotion(nodes, simulatePhysics(Engine, searchText).nodes)
        /\ simulatePhysics(Engine, searchText).isStable

\* a stable state, no search, in which the force model would move a node
C1_StableButForcesPending ==
    /\ isStable
    /\ ~HasSearch(searchText)
    /\ Len(nodes) >= 2
    /\ Len(links) >= 1
    /\ ~SameMotion(nodes, PhysicsStep(Engine).nodes)

\* C2: after any rebuild of the graph, isStable is false and stableFrameCount
\* is 0, whatever state the previous simulation was in
C2_RebuildIsFresh ==
    [][(Rebuilt /\ Len(network'.nodes) > 0) => (~isStable' /\ stableFrameCount' = 0)]_vars

\* C3: isStable becomes true only at the end of a physics step that is at
\* least the stableFramesRequired-th step applied to the current graph
C3_StableOnlyAfterRequiredSteps ==
    [][(~isStable /\ isStable') => steps' >= stableFramesRequired]_vars

\* what a call in pinned mode may change: the lines, set from the positions
PinnedResult(eng, after) ==
    /\ SameMotion(eng.nodes, after.nodes)
    /\ after.isStable = eng.isStable
    /\ after.stableFrameCount = eng.stableFrameCount
    /\ Len(after.links) = Len(eng.links)
    /\ \A k \in 1..Len(eng.links) :
          /\ after.links[k].source = eng.links[k].source
          /\ after.links[k].target = eng.links[k].target
          /\ after.links[k].weight = eng.links[k].weight
          /\ after.links[k].line.drawn =>
                after.links[k].line = LineOf(eng.nodes, eng.links[k], NoLine)

C5_PositionBounded ==
    \A i \in 1..Len(nodes) : ~nodes[i].position.nan /\ Length(nodes[i].position) <= maxDistance

\* a node that physics steps have pushed out to the bounding sphere
C5_AtTheBoundary ==
    /\ steps > 0
    /\ \E i \in 1..Len(nodes) : Length(nodes[i].position) > maxDistance - PosScale

\* C6: after the initial placement and after every physics step, the speed of
\* every node is at most maxVelocity
C6_VelocityBounded ==
    \A i \in 1..Len(nodes) : ~nodes[i].velocity.nan /\ Length(nodes[i].velocity) <= maxVelocity

\* a node that a physics step has left at the speed limit
C6_AtTheSpeedLimit ==
    /\ steps > 0
    /\ \E i \in 1..Len(nodes) : Length(nodes[i].velocity) > maxVelocity - VelScale \div 100

\* no component of the vector is NaN
Finite(v) == ~v.nan

\* C7: coincident nodes, joined by a link or not, add nothing undefined to a
\* velocity: the repulsion of a node at the place of another is zero, a link
\* between two nodes at one place leaves the velocities finite, and every
\* position and velocity is finite after any number of steps
C7_DegenerateGuarded ==
    \A i \in 1..Len(nodes) :
        /\ Finite(nodes[i].position)
        /\ Finite(nodes[i].velocity)
        /\ RepulsionOn(nodes[i].position, nodes[i].position) = ZeroVec
        /\ Finite(AttractBetween(nodes, i, i, 1, [j \in 1..Len(nodes) |-> nodes[j].velocity])[i])

\* physics steps have run on a graph with a self-loop link
C7_SelfLoopStepped ==
    /\ steps > 0
    /\ \E k \in 1..Len(links) :
          /\ links[k].source = links[k].target
          /\ FindNode(nodes, links[k].source) # 0

\* the nodes ns are the nodes `shown`, each at its initial position and at rest
FreshlyPlaced(ns, shown) ==
    /\ Len(ns) = Len(shown)
    /\ \A i \in 1..Len(shown) :
          /\ ns[i].id = shown[i].id
          /\ ns[i].position = InitialPosition(i - 1, Len(shown))
          /\ ns[i].velocity = ZeroVec

\* C8: after a rebuild that produces a non-empty graph, the nodes are exactly
\* the displayed nodes of the new graph, each at its initial placement on the
\* sphere with zero velocity
C8_AtomicReplace ==
    [][(Rebuilt /\ Len(network'.nodes) > 0)
          => FreshlyPlaced(nodes', NodesToDisplay(network', searchText'))]_vars

\* a graph rebuilt while the previous simulation was counting quiet frames
C8_RebuiltOverRunning ==
    /\ attached
    /\ steps = 0
    /\ ~isStable
    /\ stableFrameCount > 0
    /\ Len(nodes) >= 2
    /\ FreshlyPlaced(nodes, NodesToDisplay(network, searchText))

\* C9: in every state where isStable is true, the velocity of every node is zero
C9_StableAtRest == isStable => \A i \in 1..Len(nodes) : nodes[i].velocity = ZeroVec

\* a layout that became stable after its nodes had moved
C9_SettledAfterMoving ==
    /\ isStable
    /\ steps > stableFramesRequired
    /\ Len(nodes) >= 2

\* C10: when the network of the current props has no nodes, a call of
\* simulatePhysics changes nothing and a click picks no node
C10_EmptyGraphInert ==
    Len(network.nodes) = 0 =>
        /\ simulatePhysics(Engine, searchText) = Engine
        /\ \A target \in ClickTargets : Pick(nodes, cameraPosition, target) = 0

\* ------------------------------------------------------------------------
\* Properties of picking

\* where the user aims a click: at the place of a node, or beside the graph
AimPoints == { nodes[i].sphere : i \in 1..Len(nodes) } \cup {OffTarget}

\* the distances at which the ray from the camera through `target` enters the
\* spheres of the nodes ns, each sphere at the position of its node
SphereEntries(ns, target) ==
    [i \in 1..Len(ns) |->
        HitDistance(cameraPosition, target, ns[i].sphere, SphereRadius(ns[i].count))]

\* h is the index of a sphere entered at the smallest distance of ds, or 0
\* when ds holds no entry
IsNearestHit(h, ds) ==
    IF h = 0 THEN \A i \in DOMAIN ds : ds[i] < 0
    ELSE /\ ds[h] >= 0
         /\ \A j \in DOMAIN ds : ds[j] < 0 \/ ds[h] <= ds[j]

\* C11: once no animation frame is pending, for every ray the pick is the node
\* whose sphere, at the position of the node, the ray enters at the smallest
\* positive distance, and no node when the ray enters no sphere
C11_PickIsNearestHit ==
    animationFrame = "none" =>
        \A target \in AimPoints :
            IsNearestHit(Pick(nodes, cameraPosition, target), SphereEntries(nodes, target))

\* a click on the canvas, wherever it lands
Clicked == \E target \in ClickTargets : Click(target)

\* C12: a click, whether it hits a node or not, changes no position and no
\* velocity of a node, nor isStable, nor stableFrameCount
C12_PickIsPure ==
    [][Clicked => /\ SameMotion(nodes, nodes')
                  /\ isStable' = isStable
                  /\ stableFrameCount' = stableFrameCount]_vars

\* ------------------------------------------------------------------------
\* Properties of the edge set

\* the velocities of the nodes ns
Velocities(ns) == [i \in 1..Len(ns) |-> ns[i].velocity]

\* an endpoint of the edge is not one of the nodes ns
Dangling(ns, edge) == FindNode(ns, edge.source) = 0 \/ FindNode(ns, edge.target) = 0

\* the link is the edge
SameEdge(link, edge) == link.source = edge.source /\ link.target = edge.target

\* C13: an edge of the network with an endpoint that is not a displayed node is
\* not among the links of the engine, so every link joins two nodes, and the
\* attraction of such an edge leaves every velocity as it is
C13_MalformedEdgesDropped ==
    /\ \A k \in 1..Len(links) : ~Dangling(nodes, links[k])
    /\ \A e \in 1..Len(network.edges) :
          Dangling(nodes, network.edges[e]) =>
             /\ \A k \in 1..Len(links) : ~SameEdge(links[k], network.edges[e])
             /\ AttractOne(nodes, network.edges[e], Velocities(nodes)) = Velocities(nodes)

\* a search leaves a node out, and with it an edge of the network
C13_EdgeLeftOut ==
    /\ attached
    /\ Len(nodes) >= 2
    /\ Len(links) >= 1
    /\ \E e \in 1..Len(network.edges) : Dangling(nodes, network.edges[e])

\* ------------------------------------------------------------------------
\* Properties of the force model

\* the distance between the first two nodes of ns
Apart(ns) == Distance(ns[1].position, ns[2].position)

\* C14: of two pairs that differ only in the weight of their edge (1 and 5),
\* started from the same positions, the pair with the edge of weight 5 is
\* strictly closer together after any equal number, at least 1, of calls of
\* simulatePhysics
C14_HeavierEdgeCloser ==
    (Len(twin.nodes) = 2 /\ steps >= 1) => Apart(twin.nodes) < Apart(nodes)

\* both pairs have moved, and the pair with the heavier edge has settled first
C14_HeavierSettledFirst ==
    /\ Len(twin.nodes) = 2
    /\ steps > stableFramesRequired
    /\ twin.isStable
    /\ ~isStable
    /\ Apart(nodes) < Apart(FreshLayout[NetLight, <<>>].nodes)

\* C15: the layout of a connected network of at most 50 nodes with moderate
\* edge weights, stepped from its initial placement, is stable before
\* MaxSettleSteps physics steps have run
C15_SettlesWithinBound == steps >= MaxSettleSteps => isStable

\* ------------------------------------------------------------------------
\* Properties of the initial placement

\* C16: the nodes of a graph no physics step has touched are at different
\* points with zero velocity, and (evaluated where nothing is drawn yet) for
\* every number n >= 2 of displayed nodes up to MaxPlaced the initial positions
\* of two different indices are different points
C16_CollisionFreeStart ==
    /\ steps = 0 =>
          \A i, j \in 1..Len(nodes) :
              /\ nodes[i].velocity = ZeroVec
              /\ i # j => nodes[i].position # nodes[j].position
    /\ nodes = <<>> =>
          \A n \in 2..MaxPlaced : \A i, j \in 0..(n - 1) :
              i # j => InitialPosition(i, n) # InitialPosition(j, n)

\* eight nodes as drawNetwork3D has placed them
C16_EightPlaced == attached /\ steps = 0 /\ Len(nodes) >= 8

\* R0 * (1 - 2 * i / (n - 1)), in PosScale
PoleToPole(i, n) == TruncDiv(InitRadius * PosScale * (n - 1 - 2 * i), n - 1)

\* C17: node i of n is placed with the polar-axis coordinate
\* R0 * (1 - 2 * i / (n - 1)), whichever way the axis points, so that the first
\* node is at one pole and the last node at the opposite pole
C17_PlacedPoleToPole ==
    (steps = 0 /\ Len(nodes) >= 2) =>
        \A i \in 1..Len(nodes) :
            Abs(Abs(nodes[i].position.z) - Abs(PoleToPole(i - 1, Len(nodes)))) <= 1

\* what the fixed-point angles, directions and lengths resolve
angleSlack == AngleScale \div 500

unitSlack == UnitScale \div 2000

lengthSlack == PosScale \div 10

\* the polar angle of a camera at p, as the next drag would read it
PhiAt(p) == SphericalOf(p).phi

InBoundsAt(phi, distance) ==
    /\ phi >= minPhi - angleSlack
    /\ phi <= maxPhi + angleSlack
    /\ distance >= minZoom - lengthSlack
    /\ distance <= maxZoom + lengthSlack

InBounds(p) == InBoundsAt(PhiAt(p), Length(p))

SameDistance(before, after) == Abs(Length(after) - Length(before)) <= lengthSlack

SameDirection(before, after) == MaxAbs(VSub(Normalize(after), Normalize(before))) <= unitSlack

\* C18: from the initial camera, after any sequence of drags and wheel events
\* the polar angle of the camera lies in [0.1, pi - 0.1] and its distance from
\* the origin in [150, 500]; a drag leaves the distance as it was and a wheel
\* event leaves the direction as it was (all up to the fixed-point resolution)
C18_CameraBounded ==
    /\ InBounds(camera)
    /\ lastMove.by = "handleMouseMove" => SameDistance(lastMove.from, camera)
    /\ lastMove.by = "handleWheel" => SameDirection(lastMove.from, camera)

\* the camera was dragged down to the pole limit and wheeled out to the far limit
C18_AtBothLimits ==
    /\ cameraMoves >= 2
    /\ PhiAt(camera) >= maxPhi - angleSlack
    /\ Length(camera) >= maxZoom - lengthSlack

\* C19: with or without an active search, a rebuild never hands more than
\* MAX_NODES_TO_DISPLAY nodes to the layout engine
C19_NodeCountCapped == Len(nodes) <= MAX_NODES_TO_DISPLAY

Endpoints(edge) == {edge.source, edge.target}

\* two different authorIds in one of the papers
SharePaper(ps, a, b) ==
    a # b /\ \E p \in 1..Len(ps) : a \in { IdsOf(ps[p])[i] : i \in 1..Len(ps[p]) }
                                  /\ b \in { IdsOf(ps[p])[i] : i \in 1..Len(ps[p]) }

\* C20: every edge buildAuthorNetwork returns has two different endpoints,
\* both of them ids of returned nodes; no two edges join the same unordered
\* pair of ids; every two different authors who share a paper have an edge
C20_EdgeSetWellFormed ==
    /\ \A k \in 1..Len(built.edges) :
          /\ built.edges[k].source # built.edges[k].target
          /\ Endpoints(built.edges[k]) \subseteq NodeIds(built.nodes)
          /\ \A j \in 1..(k - 1) : Endpoints(built.edges[j]) # Endpoints(built.edges[k])
    /\ \A a, b \in NodeIds(built.nodes) :
          SharePaper(papers, a, b) => \E k \in 1..Len(built.edges) : Endpoints(built.edges[k]) = {a, b}

\* C21: the frame callback whose physics step sets isStableRef to true leaves
\* no animation frame scheduled
C21_StableStopsLoop == [][(~isStable /\ isStable') => animationFrame' = "none"]_vars

\* the search box goes from empty to a text
SearchEntered == ~HasSearch(searchText) /\ HasSearch(searchText')

\* C22: when the search text goes from empty to non-empty, every node that
\* is still displayed keeps exactly the position it had immediately before
C22_PinnedKeepsPositions ==
    [][SearchEntered =>
          \A i \in 1..Len(nodes') : \A j \in 1..Len(nodes) :
              nodes'[i].id = nodes[j].id => nodes'[i].position = nodes[j].position]_vars

\* what a velocity in VelScale resolves
speedSlack == VelScale \div 2000

\* what a velocity change of the size of `force` resolves
SpeedSlackAt(force) == speedSlack + Abs(force) \div 1000

\* velocities that are all zero, one for every node
AtRest(ns) == [i \in 1..Len(ns) |-> ZeroVec]

\* the changes dv of the velocities made by one link between the nodes at
\* s and t are those of a spring of the given force along `apart`, the
\* vector from s to t
SpringPull(dv, s, t, force, apart) ==
    /\ MaxAbs(VAdd(dv[s], dv[t])) <= SpeedSlackAt(force)
    /\ Abs(Length(dv[s]) - Abs(force)) <= SpeedSlackAt(force)
    /\ Abs(Length(dv[t]) - Abs(force)) <= SpeedSlackAt(force)
    /\ force > 0 => Dot(dv[s], apart) > 0 /\ Dot(dv[t], apart) < 0
    /\ force < 0 => Dot(dv[s], apart) < 0 /\ Dot(dv[t], apart) > 0

\* the link between the nodes at s and t of ns, when it applies a force
SpringBetween(ns, link, s, t) ==
    (/\ s # 0 /\ t # 0 /\ s # t
     /\ ~ns[s].position.nan /\ ~ns[t].position.nan
     /\ Abs(AttractionForce(Distance(ns[s].position, ns[t].position), link.weight)) > forceEpsilon)
    => SpringPull(AttractOne(ns, link, AtRest(ns)), s, t,
                  AttractionForce(Distance(ns[s].position, ns[t].position), link.weight),
                  Shrunk(VSub(ns[t].position, ns[s].position), PosScale))

\* C23: in a physics step every edge with both endpoints present and a force
\* above epsilon changes the velocities of its endpoints by vectors of equal
\* magnitude |force| and opposite direction, toward each other when the
\* distance is above idealDistance and apart when it is below
C23_SymmetricSpring ==
    RunsPhysics(Engine, searchText) =>
        \A k \in 1..Len(links) :
            SpringBetween(nodes, links[k], FindNode(nodes, links[k].source),
                          FindNode(nodes, links[k].target))

\* repulsionStrength / (d^2 + 1) in VelScale, d in tenths of a unit
InverseSquare(tenths) == (repulsionStrength * VelScale * 100) \div (Sq(tenths) + 100)

\* what a repulsion of the size of `force` resolves: the distance is known
\* to a tenth, the direction to a part in UnitScale
ForceSlackAt(force) == 3 + force \div 50

\* c is a push of the given magnitude on A, away from B
PushAway(c, posA, posB, magnitude) ==
    /\ Abs(Length(c) - magnitude) <= ForceSlackAt(magnitude)
    /\ MaxAbs(VSub(c, VScale(Normalize(VSub(posA, posB)), magnitude, UnitScale)))
           <= ForceSlackAt(magnitude)
    /\ Length(c) > 0 => Dot(c, Shrunk(VSub(posA, posB), Shrink(VSub(posA, posB)))) > 0

\* what B at posB adds to the velocity of A at posA is the claimed repulsion
RepulsionRule(posA, posB) ==
    IF Distance(posA, posB) > minDistance
    THEN PushAway(RepulsionOn(posA, posB), posA, posB,
                  InverseSquare(Distance(posA, posB) \div (PosScale \div 10)))
    ELSE RepulsionOn(posA, posB) = ZeroVec

\* the contributions of the first j nodes to node i, whatever links there are
RECURSIVE Contributions(_, _, _)
Contributions(ns, i, j) ==
    IF j = 0 THEN ZeroVec
    ELSE VAdd(Contributions(ns, i, j - 1),
              IF j = i THEN ZeroVec ELSE RepulsionOn(ns[i].position, ns[j].position))

\* positions at distances below, at and above minDistance of each other
NearAndFar ==
    {Vec(0, 0, 0), Vec(3 * PosScale, 0, 0), Vec(0, 5 * PosScale, 0), Vec(0, 0, -5 * PosScale - 1),
     Vec(4 * PosScale, 4 * PosScale, 0), Vec(-20 * PosScale, 30 * PosScale, 60 * PosScale),
     Vec(100 * PosScale, -100 * PosScale, 50 * PosScale)}

\* C24: in a physics step the velocity of every node A, once damped, receives
\* from every other node B at distance d > minDistance a contribution of
\* magnitude repulsionStrength / (d^2 + 1) directed away from B, and nothing
\* if d <= minDistance, whether or not an edge joins A and B
C24_RepulsionRule ==
    /\ RunsPhysics(Engine, searchText) =>
          \A i \in 1..Len(nodes) :
              /\ Repelled(nodes)[i]
                    = VAdd(VScale(nodes[i].velocity, dampingNum, dampingDen),
                           Contributions(nodes, i, Len(nodes)))
              /\ \A j \in 1..Len(nodes) :
                    (i # j /\ ~nodes[i].position.nan /\ ~nodes[j].position.nan)
                        => RepulsionRule(nodes[i].position, nodes[j].position)
    /\ nodes = <<>> => \A posA, posB \in NearAndFar : posA # posB => RepulsionRule(posA, posB)

\* a chain of three nodes has moved: two pairs are joined by an edge, one is not
C24_LinkedAndUnlinkedPairs ==
    /\ RunsPhysics(Engine, searchText)
    /\ steps >= 2
    /\ Len(nodes) = 3
    /\ Len(links) = 2

\* half of a velocity, as a displacement in PosScale
HalfOf(v) == VScale(v, PosScale, 2 * VelScale)

\* a speed below the dead-zone threshold
BelowDeadZone(v) == ~v.nan /\ Length(v) < deadZone

\* every force of a step on every node, accumulated from zero
Forces(ns, ls) == Attracted(ns, ls, 1, [i \in 1..Len(ns) |-> Contributions(ns, i, Len(ns))])

\* the accumulated velocities vs are the damped velocities plus the forces
DampedOnce(ns, vs, forces) ==
    \A i \in 1..Len(ns) :
        vs[i] = VAdd(VScale(ns[i].velocity, dampingNum, dampingDen), forces[i])

\* the node goes from `node` to `after`, its clamped velocity being `clamped`:
\* at rest and in place below the dead zone, else half the velocity further
HalfStep(node, after, clamped) ==
    IF BelowDeadZone(clamped)
    THEN after.velocity = ZeroVec /\ after.position = node.position
    ELSE after.position = VAdd(node.position, HalfOf(clamped))

\* the same, the position being brought back within maxDistance of the origin
HalfStepWithinRange(node, after, clamped) ==
    IF BelowDeadZone(clamped)
    THEN after.velocity = ZeroVec /\ after.position = LimitPosition(node.position)
    ELSE after.position = LimitPosition(VAdd(node.position, HalfOf(clamped)))

\* C25 as claimed: in a physics step a node whose clamped speed is below the
\* dead zone gets velocity zero and keeps its position, every other node's
\* position is advanced by exactly half of its clamped velocity, and every
\* velocity is damped once before the forces of the step are added
C25_HalfStepExactly ==
    RunsPhysics(Engine, searchText) =>
        /\ DampedOnce(nodes, Attracted(nodes, links, 1, Repelled(nodes)), Forces(nodes, links))
        /\ \A i \in 1..Len(nodes) :
              HalfStep(nodes[i], PhysicsStep(Engine).nodes[i],
                       LimitSpeed(Attracted(nodes, links, 1, Repelled(nodes))[i]))

\* C25 as amended: the position advanced by half of the clamped velocity is
\* then brought back to distance maxDistance from the origin if it is beyond
C25_HalfStepWithinRange ==
    RunsPhysics(Engine, searchText) =>
        /\ DampedOnce(nodes, Attracted(nodes, links, 1, Repelled(nodes)), Forces(nodes, links))
        /\ \A i \in 1..Len(nodes) :
              HalfStepWithinRange(nodes[i], PhysicsStep(Engine).nodes[i],
                                  LimitSpeed(Attracted(nodes, links, 1, Repelled(nodes))[i]))

\* the node is carried beyond maxDistance by half of its clamped velocity
CarriedBeyond(node, clamped) ==
    /\ ~BelowDeadZone(clamped)
    /\ ~clamped.nan
    /\ Length(VAdd(node.position, HalfOf(clamped))) > maxDistance

\* a running layout that has moved, with a node that its velocity carries
\* beyond maxDistance
C25_CarriedBeyondRange ==
    /\ RunsPhysics(Engine, searchText)
    /\ steps >= 1
    /\ \E i \in 1..Len(nodes) :
          CarriedBeyond(nodes[i], LimitSpeed(Attracted(nodes, links, 1, Repelled(nodes))[i]))

\* a running layout that has moved, with a node below the dead zone and a
\* node above it
C25_SlowAndFastNodes ==
    /\ RunsPhysics(Engine, searchText)
    /\ steps >= 1
    /\ \E i, j \in 1..Len(nodes) :
          /\ BelowDeadZone(Attracted(nodes, links, 1, Repelled(nodes))[i])
          /\ ~BelowDeadZone(Attracted(nodes, links, 1, Repelled(nodes))[j])

\* ------------------------------------------------------------------------
\* Picking and the simulated positions

\* the spheres the click handler hands to the raycaster:
\* nodesRef.current.map((n) => n.sphere)
PickableIds == NodeIds(nodes)

\* the nodes of the graph that the current props and search text display
CurrentIds == NodeIds(NodesToDisplay(network, searchText))

\* C26: in every state reached by rebuilds and physics steps the position of
\* each node's pickable sphere is the node's simulation position, and the
\* pickable spheres are exactly the nodes of the current graph
C26_PickingSeesLatest ==
    /\ \A i \in 1..Len(nodes) : nodes[i].sphere = nodes[i].position
    /\ PickableIds = CurrentIds

\* ------------------------------------------------------------------------
\* The stability counter

\* the count is within 0..stableFramesRequired and the layout is stable exactly
\* when the count has reached stableFramesRequired
CountAgrees ==
    /\ 0 <= stableFrameCount
    /\ stableFrameCount <= stableFramesRequired
    /\ isStable <=> stableFrameCount >= stableFramesRequired

\* C28: in every reachable state 0 <= stableFrameCount <= stableFramesRequired
\* and the layout is stable if and only if the count has reached
\* stableFramesRequired; once stable it stays stable through every later
\* rebuild, search or click
C28_CountAndStable == [](CountAgrees) /\ [][isStable => isStable']_vars

\* a stable layout that has been rebuilt for other props since it settled
C28_StableAfterRebuild ==
    /\ isStable
    /\ stableFrameCount = stableFramesRequired
    /\ steps = 0
    /\ Len(nodes) >= 2

\* ------------------------------------------------------------------------
\* Properties of the life of the component

\* C27: once the layout is stable, every camera change made by a drag or a
\* wheel event is eventually followed by a render with the new camera (for as
\* long as the component is mounted)
C27_RenderFollowsCamera ==
    (isStable /\ mounted /\ camera # renderedCamera) ~> (renderedCamera = camera \/ ~mounted)

\* C29: at most one animation-frame callback is pending at any time, and after
\* the unmount none is pending
C29_SingleLoop ==
    /\ pendingFrames <= 1
    /\ ~mounted => pendingFrames = 0

\* unmounted while the loop was running, after a search restarted the loop and
\* a frame rendered
C29_UnmountedWhileRunning ==
    /\ ~mounted
    /\ ~isStable
    /\ HasSearch(searchText)
    /\ Len(nodes) > 0
    /\ renderedCamera # NoRender

\* C30: after the cleanup returned by initScene has run, none of the listeners
\* of initScene is attached, whether the timer fired before the cleanup or
\* after it
C30_NoListenerAfterCleanup == ~mounted => listeners = {}

====
